---- MODULE Spec2Model ----
(***************************************************************************)
(* TailingsIQ API gateway (main.py): FastAPI route handlers over a MongoDB *)
(* database with the collections facilities, documents, monitoring and     *)
(* assessments.                                                            *)
(*                                                                         *)
(* Every handler is a coroutine with exactly one suspension point, the     *)
(* awaited database call.  A handler is therefore modelled by two actions: *)
(*   <handler>_call    the code up to the await (the document or query is  *)
(*                     built, the clock is read, the command is in flight) *)
(*   <handler>_return  the database executes the command atomically and    *)
(*                     the code after the await runs to the return or to   *)
(*                     the except clause.                                  *)
(* Requests of different tasks interleave between these two steps.         *)
(* The value a handler returns, or the HTTPException it raises, is an      *)
(* output, not state: <handler>_response gives it for the request of a     *)
(* task whose database command executes in the current state.  get_facility*)
(* and get_document raise before their await, and change nothing, when the *)
(* id is not an ObjectId: invalid_id_responses.                            *)
(*                                                                         *)
(* Time is counted in ticks, TicksPerSecond ticks to the second, so that   *)
(* time.time() is a float with a fraction and int(time.time()) truncates.  *)
(* The database is assumed available: insert_one and find do not raise.    *)
(* Free-form request fields that no handler inspects (facility name,       *)
(* location, type, owner; document name, type, content; the facility_id    *)
(* of the MonitoringData body) are not represented.                        *)
(***************************************************************************)
EXTENDS Integers, Sequences, FiniteSets, TLC

\* ---------------------------------------------------------------- bounds
NumProcs == 2          \* requests in flight at once
MaxInserts == 3        \* documents inserted, over all collections
TicksPerSecond == 2    \* clock resolution

Procs == 1..NumProcs

\* ------------------------------------------------------------------ time
Second == TicksPerSecond
Minute == 60 * Second
Day == 24 * 60 * Minute
T0 == 10 * Day
\* the values time.time() takes: two instants of one second, and an instant
\* more than seven days later
ClockValues == {T0, T0 + 1, T0 + 8 * Day}
\* int(time.time())
IntOf(t) == t \div TicksPerSecond

\* ------------------------------------------------------- request inputs
\* str(ObjectId): a 24 digit hex string, one per ObjectId
HexId(n) == <<"oid", n>>
\* a path parameter that is not a 24 digit hex string
MalformedId == <<"str", 0>>
PathIds == {HexId(1), HexId(2), MalformedId}
\* a facility_id path parameter of a handler that does not parse it
FacilityIds == {HexId(1), MalformedId}
\* FacilityCreate.status, a free string
StatusInputs == {"active", "decommissioned"}
\* DocumentCreate.facility_id
DocFacilityInputs == {HexId(1)}
\* MonitoringData bodies: timestamp and readings
MonitoringInputs ==
    { [timestamp |-> T0, readings |-> "pore-pressure:10"],
      [timestamp |-> T0 + 10 * Minute, readings |-> "pore-pressure:12"] }
\* Optional[float] = None
None == <<>>
Some(v) == <<v>>
StartInputs == {None, Some(0), Some(T0)}
EndInputs == {None, Some(0), Some(T0 + 10 * Minute)}

VARIABLES
    now,          \* time.time()
    facilities,   \* database.facilities, in natural (insertion) order
    documents,    \* database.documents
    monitoring,   \* database.monitoring
    assessments,  \* database.assessments
    task          \* per request slot: the handler suspended in it, its locals

vars == <<now, facilities, documents, monitoring, assessments, task>>
stores == <<facilities, documents, monitoring, assessments>>

Idle == [pc |-> "idle"]
Awaiting(p, op) == task[p].pc = "await" /\ task[p].op = op
Inserting == {"create_facility", "upload_document", "add_monitoring_data",
              "assess_facility_risk"}
InFlight == Cardinality({q \in Procs : task[q].pc = "await" /\ task[q].op \in Inserting})
\* request slots are interchangeable: a new request takes the first idle one
Free(p) == task[p] = Idle /\ \A q \in Procs : q < p => task[q] # Idle

\* --------------------------------------------------------------- database
\* the ObjectId insert_one gives a document that has no _id: unique over
\* all collections
NextOid == Len(facilities) + Len(documents) + Len(monitoring) + Len(assessments) + 1
CanInsert == NextOid - 1 + InFlight < MaxInserts
WithOid(doc, oid) == [k \in DOMAIN doc \cup {"_id"} |-> IF k = "_id" THEN oid ELSE doc[k]]
\* a faulty insert: an upsert keyed by facility_id, which replaces the entry
\* the facility already has
InsertOneUpsert(coll, doc, oid) ==
    IF \E i \in 1..Len(coll) : coll[i].facility_id = doc.facility_id
    THEN [i \in 1..Len(coll) |->
            IF coll[i].facility_id = doc.facility_id THEN WithOid(doc, oid) ELSE coll[i]]
    ELSE Append(coll, WithOid(doc, oid))
\* a faulty insert: a capped collection, which drops its oldest document
InsertOneCapped(coll, doc, oid) ==
    IF Len(coll) >= 1 THEN Append(Tail(coll), WithOid(doc, oid))
    ELSE Append(coll, WithOid(doc, oid))
\* collection.insert_one(doc): the document, with its new _id, is added
InsertOne(coll, doc, oid) ==
    Append(coll, WithOid(doc, oid))
\* collection.find_one({"_id": oid}): the documents with that _id
FindById(coll, oid) == SelectSeq(coll, LAMBDA d : d._id = oid)
\* collection.find({"facility_id": f, "timestamp": {"$gte": s, "$lte": e}}),
\* no sort: the cursor yields the matches in natural order
FindReadings(coll, q) ==
    SelectSeq(coll, LAMBDA d : /\ d.facility_id = q.facility_id
                               /\ d.timestamp >= q.start_time
                               /\ d.timestamp <= q.end_time)

\* ------------------------------------------------------------- responses
Ok(body) == [status |-> 200, body |-> body]
HTTPException(code, detail) == [status |-> code, detail |-> detail]
\* str(e) of an exception caught by "except Exception as e".  For an
\* HTTPException it is "<status>: <detail>" or "" depending on the
\* installed Starlette; for bson's InvalidId it is the message
StrOf(e) ==
    IF e.type = "HTTPException"
    THEN {<<e.status, e.detail>>, <<>>}
    ELSE {<<e.type>>}
\* except Exception as e: raise HTTPException(status_code=400, detail=str(e))
Except400(e) == {HTTPException(400, d) : d \in StrOf(e)}
Raised(code, detail) == [type |-> "HTTPException", status |-> code, detail |-> detail]
InvalidId == [type |-> "InvalidId"]
\* bson.ObjectId(s): raises InvalidId unless s is a 24 digit hex string
IsObjectId(s) == s[1] = "oid"
ObjectIdOf(s) == s[2]
\* doc["id"] = str(doc["_id"]); del doc["_id"]
WithId(d) == [k \in (DOMAIN d \ {"_id"}) \cup {"id"} |->
                IF k = "id" THEN HexId(d._id) ELSE d[k]]
WithIds(ds) == [i \in 1..Len(ds) |-> WithId(ds[i])]
\* insert_one leaves the new _id in the dict; doc["id"] = str(inserted_id)
Inserted(doc, oid) == [k \in DOMAIN doc \cup {"_id", "id"} |->
                         IF k = "id" THEN HexId(oid)
                         ELSE IF k = "_id" THEN oid ELSE doc[k]]
Start(p, t) == task' = [task EXCEPT ![p] = t]
Finish(p) == task' = [task EXCEPT ![p] = Idle]
\* the step in which the handler of op in slot p returns or raises
Returns(p, op) == Awaiting(p, op) /\ task'[p] = Idle

\* -------------------------------------------------------------- the clock
Tick ==
    /\ \E t \in ClockValues : t > now /\ now' = t
    /\ UNCHANGED <<stores, task>>

Init ==
    /\ now = T0
    /\ facilities = <<>>
    /\ documents = <<>>
    /\ monitoring = <<>>
    /\ assessments = <<>>
    /\ task = [p \in Procs |-> Idle]

\* --------------------------------------------------------- create_facility
create_facility_call(p) ==
    /\ Free(p)
    /\ CanInsert
    /\ \E s \in StatusInputs :
         Start(p, [pc |-> "await", op |-> "create_facility",
                   doc |-> [status |-> s, created_at |-> now]])
    /\ UNCHANGED <<now, stores>>

\* FacilityResponse(**facility_doc), created_at as str
create_facility_response(p) ==
    Ok([id |-> HexId(NextOid),
        status |-> task[p].doc.status,
        created_at |-> <<"str", task[p].doc.created_at>>])

create_facility_return(p) ==
    /\ Awaiting(p, "create_facility")
    /\ facilities' = InsertOne(facilities, task[p].doc, NextOid)
    /\ Finish(p)
    /\ UNCHANGED <<now, documents, monitoring, assessments>>

\* ------------------------------------------------------------ get_facility
\* ObjectId(id) raises InvalidId, which the except clause turns into a 400
invalid_id_responses == Except400(InvalidId)

get_facility_call(p) ==
    /\ Free(p)
    /\ \E id \in PathIds :
         /\ IsObjectId(id)
         /\ Start(p, [pc |-> "await", op |-> "get_facility", facility_id |-> id])
    /\ UNCHANGED <<now, stores>>

\* the 404 is raised inside the try block and caught by its except clause
get_facility_responses(p) ==
    LET found == FindById(facilities, ObjectIdOf(task[p].facility_id)) IN
      IF found = <<>>
      THEN Except400(Raised(404, "Facility not found"))
      ELSE {Ok(WithId(found[1]))}

get_facility_return(p) ==
    /\ Awaiting(p, "get_facility")
    /\ Finish(p)
    /\ UNCHANGED <<now, stores>>

\* --------------------------------------------------------- upload_document
upload_document_call(p) ==
    /\ Free(p)
    /\ CanInsert
    /\ \E f \in DocFacilityInputs :
         Start(p, [pc |-> "await", op |-> "upload_document",
                   doc |-> [facility_id |-> f, created_at |-> now]])
    /\ UNCHANGED <<now, stores>>

\* DocumentResponse(**document_doc), created_at as str
upload_document_response(p) ==
    Ok([id |-> HexId(NextOid),
        facility_id |-> task[p].doc.facility_id,
        created_at |-> <<"str", task[p].doc.created_at>>])

upload_document_return(p) ==
    /\ Awaiting(p, "upload_document")
    /\ documents' = InsertOne(documents, task[p].doc, NextOid)
    /\ Finish(p)
    /\ UNCHANGED <<now, facilities, monitoring, assessments>>

\* ------------------------------------------------------------ get_document
get_document_call(p) ==
    /\ Free(p)
    /\ \E id \in PathIds :
         /\ IsObjectId(id)
         /\ Start(p, [pc |-> "await", op |-> "get_document", document_id |-> id])
    /\ UNCHANGED <<now, stores>>

get_document_responses(p) ==
    LET found == FindById(documents, ObjectIdOf(task[p].document_id)) IN
      IF found = <<>>
      THEN Except400(Raised(404, "Document not found"))
      ELSE {Ok(WithId(found[1]))}

get_document_return(p) ==
    /\ Awaiting(p, "get_document")
    /\ Finish(p)
    /\ UNCHANGED <<now, stores>>

\* ------------------------------------------------------ add_monitoring_data
add_monitoring_data_call(p) ==
    /\ Free(p)
    /\ CanInsert
    /\ \E f \in FacilityIds, data \in MonitoringInputs :
         Start(p, [pc |-> "await", op |-> "add_monitoring_data",
                   doc |-> [facility_id |-> f, timestamp |-> data.timestamp,
                            readings |-> data.readings, created_at |-> now]])
    /\ UNCHANGED <<now, stores>>

add_monitoring_data_response(p) == Ok(Inserted(task[p].doc, NextOid))

add_monitoring_data_return(p) ==
    /\ Awaiting(p, "add_monitoring_data")
    /\ monitoring' = InsertOne(monitoring, task[p].doc, NextOid)
    /\ Finish(p)
    /\ UNCHANGED <<now, facilities, documents, assessments>>

\* ------------------------------------------------------ get_monitoring_data
\* "not x" of an Optional[float]: None and 0.0 are both falsy
Falsy(opt) == opt = None \/ opt[1] = 0
\* 7 * 24 * 60 * 60 seconds
Lookback == 7 * 24 * 60 * 60 * Second
\* if not start_time: start_time = time.time() - 7 days
StartOf(opt, t) == IF Falsy(opt) THEN t - Lookback ELSE opt[1]
\* if not end_time: end_time = time.time()
EndOf(opt, t) == IF Falsy(opt) THEN t ELSE opt[1]

get_monitoring_data_call(p) ==
    /\ Free(p)
    /\ \E f \in FacilityIds, s \in StartInputs, e \in EndInputs :
         Start(p, [pc |-> "await", op |-> "get_monitoring_data",
                   req |-> [facility_id |-> f, start_time |-> s, end_time |-> e],
                   query |-> [facility_id |-> f,
                              start_time |-> StartOf(s, now),
                              end_time |-> EndOf(e, now)]])
    /\ UNCHANGED <<now, stores>>

get_monitoring_data_response(p) ==
    Ok([facility_id |-> task[p].query.facility_id,
        start_time |-> task[p].query.start_time,
        end_time |-> task[p].query.end_time,
        readings |-> WithIds(FindReadings(monitoring, task[p].query))])

get_monitoring_data_return(p) ==
    /\ Awaiting(p, "get_monitoring_data")
    /\ Finish(p)
    /\ UNCHANGED <<now, stores>>

\* ----------------------------------------------------- assess_facility_risk
RiskScore == 65
RiskLevel == "medium"
RiskFactors ==
    << [category |-> "structural", severity |-> "medium", description |-> "Foundation stability"],
       [category |-> "environmental", severity |-> "low", description |-> "Water quality impact"] >>
Recommendations ==
    << "Increase monitoring frequency", "Schedule structural inspection",
       "Review environmental controls" >>
\* a faulty assessment: the score is taken from the clock
BuildAssessmentClockScore(facility_id, t) ==
    [facility_id |-> facility_id,
     assessment_id |-> <<"assessment_", IntOf(t)>>,
     timestamp |-> t,
     overall_risk_level |-> RiskLevel,
     risk_score |-> IntOf(t) % 67,
     summary |-> "Automated risk assessment completed",
     risk_factors |-> RiskFactors,
     recommendations |-> Recommendations]
\* a faulty assessment: a score of 70 reported as medium
BuildAssessmentHighScore(facility_id, t) ==
    [facility_id |-> facility_id,
     assessment_id |-> <<"assessment_", IntOf(t)>>,
     timestamp |-> t,
     overall_risk_level |-> RiskLevel,
     risk_score |-> RiskScore + 5,
     summary |-> "Automated risk assessment completed",
     risk_factors |-> RiskFactors,
     recommendations |-> Recommendations]
\* the assessment dict: the clock enters assessment_id and timestamp only
BuildAssessment(facility_id, t) ==
    [facility_id |-> facility_id,
     assessment_id |-> <<"assessment_", IntOf(t)>>,
     timestamp |-> t,
     overall_risk_level |-> RiskLevel,
     risk_score |-> RiskScore,
     summary |-> "Automated risk assessment completed",
     risk_factors |-> RiskFactors,
     recommendations |-> Recommendations]

assess_facility_risk_call(p) ==
    /\ Free(p)
    /\ CanInsert
    /\ \E f \in FacilityIds :
         Start(p, [pc |-> "await", op |-> "assess_facility_risk",
                   doc |-> BuildAssessment(f, now)])
    /\ UNCHANGED <<now, stores>>

assess_facility_risk_response(p) == Ok(Inserted(task[p].doc, NextOid))

assess_facility_risk_return(p) ==
    /\ Awaiting(p, "assess_facility_risk")
    /\ assessments' = InsertOne(assessments, task[p].doc, NextOid)
    /\ Finish(p)
    /\ UNCHANGED <<now, facilities, documents, monitoring>>

\* --------------------------------------------------------- specifications
Facility(p) == create_facility_call(p) \/ create_facility_return(p)
Lookup(p) ==
    \/ get_facility_call(p) \/ get_facility_return(p)
    \/ upload_document_call(p) \/ upload_document_return(p)
    \/ get_document_call(p) \/ get_document_return(p)
Ingest(p) == add_monitoring_data_call(p) \/ add_monitoring_data_return(p)
Query(p) == get_monitoring_data_call(p) \/ get_monitoring_data_return(p)
Assess(p) == assess_facility_risk_call(p) \/ assess_facility_risk_return(p)

\* every handler
Next == Tick \/ \E p \in Procs : Facility(p) \/ Lookup(p) \/ Ingest(p) \/ Query(p) \/ Assess(p)
Spec == Init /\ [][Next]_vars

\* the facility and document lookups
NextLookup == Tick \/ \E p \in Procs : Facility(p) \/ Lookup(p)
SpecLookup == Init /\ [][NextLookup]_vars

\* monitoring ingestion beside the facility registry
NextIngest == Tick \/ \E p \in Procs : Facility(p) \/ Ingest(p)
SpecIngest == Init /\ [][NextIngest]_vars

\* monitoring ingestion and query
NextQuery == Tick \/ \E p \in Procs : Ingest(p) \/ Query(p)
SpecQuery == Init /\ [][NextQuery]_vars

\* risk assessment beside monitoring ingestion
NextAssess == Tick \/ \E p \in Procs : Ingest(p) \/ Assess(p)
SpecAssess == Init /\ [][NextAssess]_vars

\* ================================================================ claims
IsPrefix(s, t) == Len(s) <= Len(t) /\ SubSeq(t, 1, Len(s)) = s
Docs(coll) == {coll[i] : i \in 1..Len(coll)}
Requests(op) == {task[p] : p \in {q \in Procs : Awaiting(q, op)}}

\* ---- C1
\* the skew the specification allows a reading's timestamp to lie ahead of
\* its ingestion time
SkewTolerance == 5 * Minute
FromTheFuture(doc) == doc.timestamp > doc.created_at + SkewTolerance

\* C1: add_monitoring_data of a reading whose timestamp is more than 5
\* minutes later than its ingestion time is rejected with
\* TimestampOutOfBounds and leaves the monitoring store as it was.
C1_FutureReadingRejected ==
    [][\A p \in Procs :
         Returns(p, "add_monitoring_data") /\ FromTheFuture(task[p].doc)
         => /\ add_monitoring_data_response(p).status # 200
            /\ add_monitoring_data_response(p).detail = "TimestampOutOfBounds"
            /\ monitoring' = monitoring]_vars

\* ---- C2
LiveFacility(f) ==
    \E d \in Docs(facilities) : HexId(d._id) = f /\ d.status # "decommissioned"

\* C2: in every reachable state every stored monitoring reading references
\* a facility that is in the facility store and is not decommissioned.
C2_ReadingsReferenceLiveFacility ==
    \A r \in Docs(monitoring) : LiveFacility(r.facility_id)

\* ---- C3
\* the readings of facility f with timestamp in [t - lookback, t]
WindowReadings(f, t) ==
    SelectSeq(monitoring, LAMBDA r : /\ r.facility_id = f
                                     /\ r.timestamp >= t - Lookback
                                     /\ r.timestamp <= t)
DataInsufficient(a) ==
    /\ "data_insufficient" \in DOMAIN a
    /\ "risk_score" \notin DOMAIN a

\* C3: assess_facility_risk for a facility with no reading in its lookback
\* window returns and stores an assessment flagged data-insufficient that
\* carries no numeric risk score.
C3_EmptyWindowIsDataInsufficient ==
    [][\A p \in Procs :
         /\ Returns(p, "assess_facility_risk")
         /\ WindowReadings(task[p].doc.facility_id, task[p].doc.timestamp) = <<>>
         => /\ DataInsufficient(assess_facility_risk_response(p).body)
            /\ DataInsufficient(assessments'[Len(assessments')])]_vars

\* ---- C4
AssessReturns == \E p \in Procs : Returns(p, "assess_facility_risk")

ScoredFields == {"facility_id", "assessment_id", "overall_risk_level", "risk_score",
                 "summary", "risk_factors", "recommendations"}
SameOn(a, b, fields) == \A k \in fields : a[k] = b[k]
\* no reading of facility f is stored, so every assessment of f was made
\* over the same, empty, set of readings
NoReadingsOf(f) == \A r \in Docs(monitoring) : r.facility_id # f

Band(score) == IF score < 34 THEN "low" ELSE IF score <= 66 THEN "medium" ELSE "high"
Banded(a) == a.risk_score \in 0..100 /\ a.overall_risk_level = Band(a.risk_score)

\* C7: every assessment assess_facility_risk builds and stores has an
\* integer risk score in 0..100 and the risk level that is the band of the
\* score.
C7_ScoreInRangeAndBanded ==
    /\ \A a \in Docs(assessments) : Banded(a)
    /\ \A t \in Requests("assess_facility_risk") : Banded(t.doc)

C7_Witness == assessments # <<>> /\ Requests("assess_facility_risk") # {}

\* ---- C8
\* C8: no step removes or changes a stored reading or a stored assessment:
\* each store after a step begins with the store before it.
C8_StoresAppendOnly ==
    [][IsPrefix(monitoring, monitoring') /\ IsPrefix(assessments, assessments')]_vars

\* readings and an assessment are stored, and further inserts followed the
\* first of each
C8_Witness ==
    /\ Len(monitoring) >= 2
    /\ Len(assessments) >= 1
    /\ monitoring[1]._id < assessments[Len(assessments)]._id

\* ---- C9
\* C9: get_facility of a well-formed id that no stored facility has
\* responds 404 "Facility not found", and get_document of one that no
\* stored document has responds 404 "Document not found".
C9_NotFoundIs404 ==
    [][\A p \in Procs :
         /\ Returns(p, "get_facility")
              /\ FindById(facilities, ObjectIdOf(task[p].facility_id)) = <<>>
            => get_facility_responses(p) = {HTTPException(404, "Facility not found")}
         /\ Returns(p, "get_document")
              /\ FindById(documents, ObjectIdOf(task[p].document_id)) = <<>>
            => get_document_responses(p) = {HTTPException(404, "Document not found")}]_vars

\* ---- C6
Ascending(rs) == \A i, j \in 1..Len(rs) : i < j => rs[i].timestamp <= rs[j].timestamp

\* C6: the readings get_monitoring_data returns are in ascending order of
\* timestamp.
C6_ReadingsAscending ==
    [][\A p \in Procs :
         Returns(p, "get_monitoring_data")
         => Ascending(get_monitoring_data_response(p).body.readings)]_vars

\* ---- C10
\* the stored readings of facility f with lo <= timestamp <= hi, as
\* get_monitoring_data hands them out
InWindow(f, lo, hi) ==
    {WithId(r) : r \in {d \in Docs(monitoring) :
                          d.facility_id = f /\ lo <= d.timestamp /\ d.timestamp <= hi}}
Range(seq) == {seq[i] : i \in 1..Len(seq)}

\* C10: with start_time and end_time both supplied, get_monitoring_data
\* returns exactly the stored readings of the facility whose timestamp lies
\* between the supplied values, 0 included.
C10_SuppliedWindowHonoured ==
    [][\A p \in Procs :
         /\ Returns(p, "get_monitoring_data")
         /\ task[p].req.start_time # None
         /\ task[p].req.end_time # None
         => Range(get_monitoring_data_response(p).body.readings)
              = InWindow(task[p].req.facility_id,
                         task[p].req.start_time[1], task[p].req.end_time[1])]_vars
====
